---- MODULE Spec2Model ----
(***************************************************************************)
(* A model of plscrape.py: the search orchestrator (PLSearch.run_search,   *)
(* get_backend, simple_get), the two catalogue backends (PrismBackend,     *)
(* LLCSirsidynixBackend), backend discovery (discover_catalogue), the      *)
(* result entities (CatalogueItem, BranchResultItem, SearchResultItem),    *)
(* load_config and do_search_from_file; and of the lists held by the       *)
(* session objects of plscrape.py and islington.py.                        *)
(*                                                                         *)
(* Python strings are modelled as sequences of tokens (a token is an       *)
(* atomic chunk of characters), so that concatenation is \o, `x in y` is   *)
(* containment of a contiguous subsequence and str.replace works token by  *)
(* token.  The empty string is << >>.                                      *)
(***************************************************************************)
EXTENDS Integers, Sequences, FiniteSets, TLC

VARIABLES
    \* process-wide tables (plscrape.py:29-30), and the backend objects
    \* constructed so far: the class of each, in the order of construction
    \* (an object's identity is its position)
    library_service_backends, backends_dict, backend_objs,
    \* discover_catalogue: its parameters, locals and outcome
    d_pc, d_libservice, d_site_backends, d_index, report,
    site_engine_for_libservice, d_probes, d_outcomes, d_exception,
    \* build_search_url applied to one set of arguments
    u_pc, u_backend, u_catalogue_url, u_title, u_author, u_match_exact, u_url,
    \* one PLSearch.run_search call: its arguments, the session object
    \* (self), the locals of run_search and of get_search_results (backend
    \* is the class of the object get_backend returned and backend_instance
    \* its identity, 0 when there is none), the fetches issued so far and
    \* how the call ended
    s_pc, args, search, backend, backend_instance, raw_html, html, record_index, gsr_items,
    item, detail_raw, fetches, s_exception, exit_code,
    \* do_search_from_file: the lines of the file, the line being read, the
    \* locals libservice, author, title and search_results, and the errors
    \* logged
    b_pc, b_lines, b_index, b_libservice, b_author, b_title, search_results,
    b_log,
    \* simple_get applied to one outcome of requests.get
    g_pc, g_outcome, g_result,
    \* one BranchResultItem, and for each of its items where its status came
    \* from: the text of a table cell, or a status set by the caller
    bri, bri_src,
    \* objects by identity: the list objects made so far, the instances made
    \* so far (their class and the list attributes in the instance's own
    \* dictionary), and the instance the last operation was applied to
    h_lists, h_objs, h_self,
    \* load_config: the lines of the file, the number of lines read, and the
    \* locals count and num_invalid
    c_pc, c_lines, c_index, count, num_invalid

globalVars == <<library_service_backends, backends_dict, backend_objs>>
discVars == <<d_pc, d_libservice, d_site_backends, d_index, report,
              site_engine_for_libservice, d_probes, d_outcomes, d_exception>>
urlVars == <<u_pc, u_backend, u_catalogue_url, u_title, u_author,
             u_match_exact, u_url>>
searchVars == <<s_pc, args, search, backend, backend_instance, raw_html, html,
                record_index,
                gsr_items, item, detail_raw, fetches, s_exception, exit_code>>
batchVars == <<b_pc, b_lines, b_index, b_libservice, b_author, b_title,
               search_results, b_log>>
getVars == <<g_pc, g_outcome, g_result>>
\* the variables of the operations modelled on their own
branchVars == <<bri, bri_src>>
heapVars == <<h_lists, h_objs, h_self>>
configVars == <<c_pc, c_lines, c_index, count, num_invalid>>
extVars == <<getVars, branchVars, heapVars, configVars>>
vars == <<globalVars, discVars, urlVars, searchVars, batchVars, extVars>>

----------------------------------------------------------------------------
(* Strings *)

\* `needle in hay` for Python strings
Contains(hay, needle) ==
    \E i \in 1..(Len(hay) + 1) :
        /\ i + Len(needle) - 1 <= Len(hay)
        /\ SubSeq(hay, i, i + Len(needle) - 1) = needle

\* all sequences over S of length at most n
SeqsUpTo(S, n) == UNION {[1..k -> S] : k \in 0..n}

----------------------------------------------------------------------------
(* Module-level names *)

backend_id_prism == <<"prism.librarymanagementcloud.co.uk">>
backend_id_llc_sirsidynix == <<"llc.ent.sirsidynix.net.uk">>
prism_url == <<"https://prism.librarymanagementcloud.co.uk/">>
sirsidynix_url == <<"https://llc.ent.sirsidynix.net.uk/client/en_GB/">>

\* the two backend classes, named by the class
BackendClasses == {"PrismBackend", "LLCSirsidynixBackend"}

\* the methods each backend class defines
ClassMethods(cls) ==
    IF cls = "PrismBackend"
    THEN {"get_id", "get_catalogue_url", "build_search_url",
          "get_search_results", "get_branch_result_item"}
    ELSE {"get_id", "get_catalogue_url", "build_search_url",
          "get_search_results", "span_div_div_text"}

get_id(cls) ==
    IF cls = "PrismBackend" THEN backend_id_prism ELSE backend_id_llc_sirsidynix

get_catalogue_url(cls, libservice) ==
    IF cls = "PrismBackend"
    THEN prism_url \o libservice \o <<"/">>
    ELSE sirsidynix_url \o libservice \o <<"/">>

----------------------------------------------------------------------------
(* Bounds and inputs *)

MaxEngines == 2

\* library service identifiers used as inputs
Services == {<<"islington">>, <<"brent">>, <<"camden">>, <<"hackney">>}

\* the same with a second service of the Prism backend
CacheServices == Services \cup {<<"barnet">>}

\* a config file's worth of entries: two services of one recognised backend,
\* one of the other, one mapped to an identifier no backend class answers
\* to; hackney unmapped
DefaultMap ==
    [s \in {<<"islington">>, <<"barnet">>, <<"brent">>, <<"camden">>} |->
        IF s \in {<<"islington">>, <<"barnet">>} THEN backend_id_prism
        ELSE IF s = <<"brent">> THEN backend_id_llc_sirsidynix
        ELSE <<"other.example.org">>]

EmptyMap == [s \in {} |-> << >>]

ConfigMaps == {DefaultMap, EmptyMap}

----------------------------------------------------------------------------
(* discover_catalogue *)

\* what requests.get can produce for a probe of catalogue_url: a transport
\* failure, or a response with a status code and the final URL
ProbeOutcomes(libservice, catalogue_url) ==
    {[kind |-> "RequestException"]} \cup
    {[kind |-> "response", status_code |-> s, url |-> u] :
        s \in {200, 404},
        u \in {catalogue_url,
               <<"https://elsewhere.example/">> \o libservice,
               <<"https://prism.librarymanagementcloud.co.uk/", "login">>}}

\* the test of lines 595-596
ProbeSucceeds(libservice, outcome) ==
    /\ outcome.kind = "response"
    /\ outcome.status_code = 200
    /\ Contains(outcome.url, libservice)

\* the report line appended for one probe (lines 597-611)
ReportLine(libservice, catalogue_url, outcome) ==
    IF outcome.kind = "RequestException"
    THEN [tag |-> "FAILED WITH ERROR", url |-> catalogue_url]
    ELSE IF outcome.status_code = 200
         THEN IF Contains(outcome.url, libservice)
              THEN [tag |-> "SUCCESS", url |-> outcome.url]
              ELSE [tag |-> "FAILED: redirected to", url |-> outcome.url]
         ELSE [tag |-> "FAILED: HTTP CODE", url |-> outcome.url]

\* no except clause
DiscoverCatchesNothing(exc) == FALSE

\* the except clause of line 609 catches RequestException only
DiscoverCatches(exc) == exc = "RequestException"

\* the call, up to the first iteration of the loop; an empty list of
\* backends falls through to the return
discover_catalogue(libservice, site_backends) ==
    /\ d_pc = "idle"
    /\ d_libservice' = libservice
    /\ d_site_backends' = site_backends
    /\ d_index' = 0
    /\ report' = << >>
    /\ site_engine_for_libservice' = << >>
    /\ d_probes' = << >>
    /\ d_outcomes' = << >>
    /\ d_exception' = "none"
    /\ d_pc' = IF site_backends = << >> THEN "returned" ELSE "loop"
    /\ UNCHANGED <<globalVars, urlVars, searchVars, batchVars, extVars>>

\* one iteration of the loop of line 588: the probe of one engine and the
\* handling of its outcome; the last iteration runs on into the return
DiscoverProbe ==
    /\ d_pc = "loop"
    /\ LET engine == d_site_backends[d_index + 1]
           catalogue_url == get_catalogue_url(engine, d_libservice)
           last == d_index + 1 = Len(d_site_backends)
       IN \E outcome \in ProbeOutcomes(d_libservice, catalogue_url) :
          /\ d_probes' = Append(d_probes, catalogue_url)
          /\ d_outcomes' = Append(d_outcomes, outcome)
          /\ d_index' = d_index + 1
          /\ IF outcome.kind = "RequestException"
             THEN IF DiscoverCatches(outcome.kind)
                  THEN /\ report' = Append(report,
                              ReportLine(d_libservice, catalogue_url, outcome))
                       /\ d_pc' = IF last THEN "returned" ELSE "loop"
                       /\ UNCHANGED <<site_engine_for_libservice, d_exception>>
                  ELSE /\ d_pc' = "raised"
                       /\ d_exception' = outcome.kind
                       /\ UNCHANGED <<report, site_engine_for_libservice>>
             ELSE /\ report' = Append(report,
                         ReportLine(d_libservice, catalogue_url, outcome))
                  /\ IF ProbeSucceeds(d_libservice, outcome)
                     THEN \* line 598: engine.get_name(); no backend class
                          \* defines get_name, so the lookup fails
                          IF "get_name" \in ClassMethods(engine)
                          THEN /\ site_engine_for_libservice' = get_id(engine)
                               /\ d_pc' = IF last THEN "returned" ELSE "loop"
                               /\ UNCHANGED d_exception
                          ELSE /\ d_pc' = "raised"
                               /\ d_exception' = "AttributeError"
                               /\ UNCHANGED site_engine_for_libservice
                     ELSE /\ d_pc' = IF last THEN "returned" ELSE "loop"
                          /\ UNCHANGED <<site_engine_for_libservice, d_exception>>
    /\ UNCHANGED <<d_libservice, d_site_backends, globalVars, urlVars,
                   searchVars, batchVars, extVars>>

----------------------------------------------------------------------------
(* build_search_url *)

\* str.replace(' ', '+')
ReplaceSpaces(s) == [i \in 1..Len(s) |-> IF s[i] = " " THEN "+" ELSE s[i]]

\* PrismBackend.build_search_url, with the global match_exact as a parameter
PrismBuildSearchUrl(catalogue_url, title, author, exact) ==
    LET title_str ==
            IF title # << >>
            THEN IF exact
                 THEN <<"+", "title%3A%28", "%22">> \o ReplaceSpaces(title)
                          \o <<"%22", "%29">>
                 ELSE <<"+", "title%3A%28">> \o ReplaceSpaces(title) \o <<"%29">>
            ELSE << >>
        author_str ==
            IF author # << >>
            THEN <<"+", "author%3A%28">> \o ReplaceSpaces(author) \o <<"%29">>
            ELSE << >>
        url1 == catalogue_url \o <<"items?query=">> \o title_str
        url2 == IF author_str # << >> THEN url1 \o <<"+", "AND">> ELSE url1
    IN url2 \o author_str

\* a build_search_url that puts the author clause before the title clause
SirsidynixBuildSearchUrlAuthorFirst(catalogue_url, title, author, exact) ==
    LET title_str ==
            IF title # << >>
            THEN <<"&qu=", "TITLE%3D">> \o ReplaceSpaces(title)
            ELSE << >>
        author_str ==
            IF author # << >>
            THEN <<"&qu", "AUTHOR%3D">> \o ReplaceSpaces(author)
            ELSE << >>
    IN catalogue_url \o <<"search/results?qu=">> \o author_str \o <<"+">>
           \o title_str \o <<"+", "&h=1">>

\* LLCSirsidynixBackend.build_search_url
SirsidynixBuildSearchUrl(catalogue_url, title, author, exact) ==
    LET title_str ==
            IF title # << >>
            THEN IF exact
                 THEN <<"&qu=", "TITLE%3D", "%22">> \o ReplaceSpaces(title)
                          \o <<"%22">>
                 ELSE <<"&qu=", "TITLE%3D">> \o ReplaceSpaces(title)
            ELSE << >>
        author_str ==
            IF author # << >>
            THEN <<"&qu", "AUTHOR%3D">> \o ReplaceSpaces(author)
            ELSE << >>
        url1 == catalogue_url \o <<"search/results?qu=">> \o title_str
        url2 == IF author_str # << >> THEN url1 \o <<"+">> \o author_str ELSE url1
    IN url2 \o <<"+", "&h=1">>

build_search_url(cls, catalogue_url, title, author, exact) ==
    IF cls = "PrismBackend"
    THEN PrismBuildSearchUrl(catalogue_url, title, author, exact)
    ELSE SirsidynixBuildSearchUrl(catalogue_url, title, author, exact)

\* the characters titles and authors are made of
TextChars == {"a", "b", " "}
MaxTextLen == 2
Texts == SeqsUpTo(TextChars, MaxTextLen)

\* one call of a backend's build_search_url, on any arguments
BuildSearchUrl ==
    /\ u_pc = "idle"
    /\ \E cls \in BackendClasses, libservice \in Services, title \in Texts,
          author \in Texts, exact \in BOOLEAN :
          /\ u_backend' = cls
          /\ u_catalogue_url' = get_catalogue_url(cls, libservice)
          /\ u_title' = title
          /\ u_author' = author
          /\ u_match_exact' = exact
          /\ u_url' = build_search_url(cls, get_catalogue_url(cls, libservice),
                                       title, author, exact)
          /\ u_pc' = "built"
    /\ UNCHANGED <<globalVars, discVars, searchVars, batchVars, extVars>>

----------------------------------------------------------------------------
(* Fetching: simple_get and is_good_response *)

match_exact == TRUE

\* Python's None, and a local that has not been assigned yet
None == [none |-> TRUE]
Unassigned == [unassigned |-> TRUE]

\* response bodies: b'' or a page
EmptyBody == [none |-> FALSE, empty |-> TRUE]

\* the tokens that have upper-case letters, with their lower-case forms
LowerTable ==
    [t \in {"TEXT/", "HTML", "Available", "AVAILABLE", "On", "Loan", "Brent",
             "LLC.ent.sirsidynix.net.uk", "T", "L", "Author", "A"} |->
        CASE t = "TEXT/" -> "text/"
          [] t = "HTML" -> "html"
          [] t \in {"Available", "AVAILABLE"} -> "available"
          [] t = "On" -> "on"
          [] t = "Loan" -> "loan"
          [] t = "Brent" -> "brent"
          [] t = "LLC.ent.sirsidynix.net.uk" -> "llc.ent.sirsidynix.net.uk"
          [] t = "T" -> "t"
          [] t = "L" -> "l"
          [] t = "Author" -> "author"
          [] t = "A" -> "a"]

\* str.lower()
Lower(s) ==
    [i \in 1..Len(s) |->
        IF s[i] \in DOMAIN LowerTable THEN LowerTable[s[i]] ELSE s[i]]

\* str.strip(): leading and trailing whitespace removed
Whitespace == {" ", "\n"}
RECURSIVE LStrip(_)
LStrip(s) ==
    IF s # << >> /\ Head(s) \in Whitespace THEN LStrip(Tail(s)) ELSE s
RECURSIVE RStrip(_)
RStrip(s) ==
    IF s # << >> /\ s[Len(s)] \in Whitespace
    THEN RStrip(SubSeq(s, 1, Len(s) - 1)) ELSE s
Strip(s) == RStrip(LStrip(s))

\* str.split(sep) with a one-token separator: the parts between separators
RECURSIVE StrSplit(_, _)
StrSplit(s, sep) ==
    IF \A i \in 1..Len(s) : s[i] # sep
    THEN <<s>>
    ELSE LET i == CHOOSE j \in 1..Len(s) :
                      s[j] = sep /\ \A m \in 1..(j - 1) : s[m] # sep
         IN <<SubSeq(s, 1, i - 1)>> \o StrSplit(SubSeq(s, i + 1, Len(s)), sep)

ContentTypes ==
    {<<"text/", "html">>, <<"TEXT/", "HTML">>, <<"application/", "json">>}

\* response headers: with or without a Content-Type entry
HeaderSets ==
    {[h \in {"Content-Type"} |-> ct] : ct \in ContentTypes}
        \cup {[h \in {} |-> << >>]}

\* what requests.get can produce: a transport failure or a response.  Only
\* a response that is_good_response accepts has its body looked at, so the
\* others carry the empty body.
FetchOutcomes(pages) ==
    {[kind |-> "RequestException"]} \cup
    {[kind |-> "response", status_code |-> sc, headers |-> h, content |-> c] :
        sc \in {200, 404}, h \in HeaderSets, c \in {EmptyBody}} \cup
    {[kind |-> "response", status_code |-> 200, headers |-> h, content |-> c] :
        h \in {x \in HeaderSets : DOMAIN x # {}}, c \in pages}

is_good_response(resp) ==
    /\ resp.status_code = 200
    /\ Contains(Lower(resp.headers["Content-Type"]), <<"html">>)

\* simple_get: the value returned, or the exception that escapes it.  The
\* lookup of the Content-Type header in is_good_response raises KeyError
\* when the response has none, and only RequestException is caught.
simple_get(outcome) ==
    IF outcome.kind = "RequestException"
    THEN [exc |-> "none", value |-> None]
    ELSE IF "Content-Type" \notin DOMAIN outcome.headers
         THEN [exc |-> "KeyError", value |-> None]
         ELSE IF is_good_response(outcome)
              THEN [exc |-> "none", value |-> outcome.content]
              ELSE [exc |-> "none", value |-> None]

\* Python truthiness of a simple_get result: None and b'' are false
Truthy(v) == v # None /\ ~v.empty

\* one call of simple_get, on any outcome of requests.get over the pages
SimpleGet(pages) ==
    /\ g_pc = "idle"
    /\ \E outcome \in FetchOutcomes(pages) :
          /\ g_outcome' = outcome
          /\ g_result' = simple_get(outcome)
          /\ g_pc' = IF simple_get(outcome).exc = "none"
                     THEN "returned" ELSE "raised"
    /\ UNCHANGED <<globalVars, discVars, urlVars, searchVars, batchVars,
                   branchVars, heapVars, configVars>>

----------------------------------------------------------------------------
(* Pages *)

\* A search page holds the div#searchResults elements, each with its direct
\* children (the Prism records), and the div#results_wrapper elements, each
\* with its div.results_cell descendants (the Sirsidynix records).
\* A detail page holds the div#availability elements.
\* html.select on a parsed body; the body b'' parses to an empty document.
SelectSearchResults(doc) == IF doc.empty THEN << >> ELSE doc.searchResults
SelectResultsWrapper(doc) == IF doc.empty THEN << >> ELSE doc.results_wrapper
SelectAvailability(doc) == IF doc.empty THEN << >> ELSE doc.availability

RECURSIVE Flatten(_)
Flatten(ss) == IF ss = << >> THEN << >> ELSE Head(ss) \o Flatten(Tail(ss))

\* the children of every div of the page taken as records, as
\* html.select('div') would give them
PrismRecordsAnyDiv(doc) ==
    Flatten(SelectSearchResults(doc)) \o
    [i \in 1..Len(Flatten(SelectResultsWrapper(doc))) |->
        [has_id |-> FALSE, id |-> << >>, summary |-> FALSE]]

\* the records the nested loops of PrismBackend.get_search_results visit,
\* in order (lines 214-216)
PrismRecords(doc) == Flatten(SelectSearchResults(doc))

\* the records the nested loops of LLCSirsidynixBackend.get_search_results
\* visit, in order (lines 352-353)
SirsidynixRecords(doc) == Flatten(SelectResultsWrapper(doc))

----------------------------------------------------------------------------
(* Entities *)

\* SearchResultItem() with the fields the backends below assign (title,
\* publisher, summary, publication_date and item_type are left out where no
\* property here reads them)
NewSearchResultItem ==
    [item_id |-> <<"?">>, link |-> <<"?">>, publication_date |-> "?",
     available_at |-> "?", branches |-> << >>]

\* a fresh PLSearch object, read through the instance: the class attributes
\* are the defaults, and error_message is not an attribute of the class
NewPLSearch ==
    [libservice |-> << >>, title |-> << >>, author |-> << >>,
     catalogue_url |-> << >>, search_url |-> << >>,
     items_found |-> << >>, error_messages |-> << >>,
     error_message |-> "unset"]

\* the messages show_search prints (lines 438-440)
show_search_errors(s) == s.error_messages

----------------------------------------------------------------------------
(* PrismBackend.get_search_results *)

IsDigit(c) == c \in {"0", "1", "2", "3", "4", "5", "6", "7", "8", "9"}

\* the longest run of digits of s starting at position i
RECURSIVE DigitRun(_, _)
DigitRun(s, i) ==
    IF i <= Len(s) /\ IsDigit(s[i]) THEN <<s[i]>> \o DigitRun(s, i + 1) ELSE << >>

\* re.search(r'items/([0-9]+)\?', s), the pattern of capita_library_search.py
RECURSIVE ReSearchItemsQuery(_, _)
ReSearchItemsQuery(s, i) ==
    IF i > Len(s) THEN << >>
    ELSE IF /\ s[i] = "items/"
            /\ DigitRun(s, i + 1) # << >>
            /\ i + Len(DigitRun(s, i + 1)) + 1 <= Len(s)
            /\ s[i + Len(DigitRun(s, i + 1)) + 1] = "?"
         THEN DigitRun(s, i + 1)
         ELSE ReSearchItemsQuery(s, i + 1)

\* re.search(r'items/([0-9]+)', s): the scan from position i; the group of
\* the leftmost match, or << >> when there is none
RECURSIVE ReSearchItems(_, _)
ReSearchItems(s, i) ==
    IF i > Len(s) THEN << >>
    ELSE IF s[i] = "items/" /\ DigitRun(s, i + 1) # << >>
         THEN DigitRun(s, i + 1)
         ELSE ReSearchItems(s, i + 1)

\* lines 218-225: the item made for one record, before its availability
PrismItemOf(record) ==
    LET link == IF record.has_id THEN record.id ELSE <<"NOT FOUND">>
        group == ReSearchItems(link, 1)
    IN [NewSearchResultItem EXCEPT
            !.link = link,
            !.item_id = IF group # << >> THEN group ELSE <<"?">>]

\* CatalogueItem() with the fields read here (barcode and shelfmark are
\* left out), and its is_available
CatalogueItem == [status |-> << >>, item_type |-> << >>]
CatalogueItemIsAvailableStripped(cat_item) ==
    Lower(Strip(cat_item.status)) = <<"available">>
CatalogueItemIsAvailable(cat_item) == Lower(cat_item.status) = <<"available">>

\* BranchResultItem(), add_item and is_available (the loop of lines 97-100)
BranchResultItem == [name |-> "", items |-> << >>]
add_item(b, cat_item) == [b EXCEPT !.items = Append(@, cat_item)]
RECURSIVE AnyAvailableFrom(_, _)
AnyAvailableFrom(items, i) ==
    IF i > Len(items) THEN FALSE
    ELSE IF CatalogueItemIsAvailable(items[i]) THEN TRUE
    ELSE AnyAvailableFrom(items, i + 1)
BranchIsAvailableFirstOnly(b) ==
    b.items # << >> /\ CatalogueItemIsAvailable(b.items[1])
BranchIsAvailable(b) == AnyAvailableFrom(b.items, 1)

\* the CatalogueItem of a table row, given as the texts of its cells: the
\* third is the item type and the fourth the status (lines 303-310)
RowItem(row) ==
    [CatalogueItem EXCEPT
        !.item_type = IF Len(row) >= 3 THEN Strip(row[3]) ELSE @,
        !.status = IF Len(row) >= 4 THEN Strip(row[4]) ELSE @]

\* get_branch_result_item: a branch block (li) with the rows of its table
RECURSIVE AddRows(_, _, _)
AddRows(b, rows, i) ==
    IF i > Len(rows) THEN b
    ELSE AddRows(add_item(b, RowItem(rows[i])), rows, i + 1)
get_branch_result_item(lib) ==
    AddRows([BranchResultItem EXCEPT !.name = lib.name], lib.rows, 1)

\* the texts a status cell or a status field can hold
Cells ==
    {<<"Available">>, <<"AVAILABLE", " ">>, <<"On", " ", "Loan">>, << >>}
MaxItems == 2

\* a table row of a branch block with the given text in its status cell,
\* and a row that has no status cell
StatusRow(cell) == <<<<"1">>, <<"barcode">>, <<"Adult", " ">>, cell>>
ShortRow == <<<<"1">>, <<"barcode">>, <<"Adult", " ">>>>
StatusCellOf(row) == IF Len(row) >= 4 THEN row[4] ELSE << >>

\* PrismBackend.get_branch_result_item on a branch block with any rows
GetBranchResultItem ==
    /\ bri_src = << >>
    /\ \E rows \in SeqsUpTo({StatusRow(c) : c \in Cells} \cup {ShortRow},
                             MaxItems) :
          /\ rows # << >>
          /\ bri' = get_branch_result_item([name |-> "Central", rows |-> rows])
          /\ bri_src' = [i \in 1..Len(rows) |->
                            [cell |-> StatusCellOf(rows[i]), parsed |-> TRUE]]
    /\ UNCHANGED <<globalVars, discVars, urlVars, searchVars, batchVars,
                   getVars, heapVars, configVars>>

\* BranchResultItem.add_item called with a CatalogueItem of any status
AddItem ==
    /\ Len(bri.items) < MaxItems
    /\ \E status \in Cells :
          /\ bri' = add_item(bri, [CatalogueItem EXCEPT !.status = status])
          /\ bri_src' = Append(bri_src, [cell |-> status, parsed |-> FALSE])
    /\ UNCHANGED <<globalVars, discVars, urlVars, searchVars, batchVars,
                   getVars, heapVars, configVars>>

\* lines 254-270: the availability read off a parsed detail page
PrismAvailabilityOf(it, detail) ==
    LET div_avail == SelectAvailability(detail)
    IN IF div_avail = << >>
       THEN [it EXCEPT !.available_at = "NOT AVAILABLE"]
       ELSE [it EXCEPT
                !.available_at =
                    IF div_avail[1].p_branches # << >>
                    THEN div_avail[1].p_branches[1]
                    ELSE "NOT AVAILABLE",
                !.branches =
                    [i \in 1..Len(div_avail[1].li) |->
                        get_branch_result_item(div_avail[1].li[i])]]

\* BeautifulSoup(markup, 'html.parser') takes len(markup): None raises
BeautifulSoupRaises(markup) == markup = None

\* the loop of get_search_results from record k on, up to the next record
\* that has a div.summary (whose detail page is fetched next) or to the end
RECURSIVE PrismScan(_, _, _)
PrismScan(records, k, items) ==
    IF k > Len(records)
    THEN [done |-> TRUE, k |-> k, items |-> items, item |-> NewSearchResultItem]
    ELSE IF records[k].summary
         THEN [done |-> FALSE, k |-> k, items |-> items,
               item |-> PrismItemOf(records[k])]
         ELSE PrismScan(records, k + 1, Append(items, PrismItemOf(records[k])))

----------------------------------------------------------------------------
(* LLCSirsidynixBackend.get_search_results *)

\* span_div_div_text on a record whose span.FIELD nesting is `nest`:
\* span tells whether span.FIELD exists, outer whether it holds a div.FIELD,
\* inner the texts of the div.FIELD elements inside that div.  div2[1] is
\* the second inner div and raises IndexError when there is only one.
span_div_div_text(nest) ==
    IF nest.span /\ nest.outer /\ nest.inner # << >>
    THEN IF Len(nest.inner) >= 2
         THEN [exc |-> "none", val |-> nest.inner[2]]
         ELSE [exc |-> "IndexError", val |-> "???"]
    ELSE [exc |-> "none", val |-> "???"]

\* the loop of lines 353-404 from record k on
RECURSIVE SirsidynixScan(_, _, _)
SirsidynixScan(records, k, items) ==
    IF k > Len(records)
    THEN [exc |-> "none", items |-> items]
    ELSE LET date == span_div_div_text(records[k].PUBDATE)
             avail == span_div_div_text(records[k].PARENT_AVAILABLE)
         IN IF date.exc # "none" THEN [exc |-> date.exc, items |-> items]
            ELSE IF avail.exc # "none" THEN [exc |-> avail.exc, items |-> items]
            ELSE SirsidynixScan(records, k + 1,
                     Append(items,
                            [NewSearchResultItem EXCEPT
                                !.publication_date = date.val,
                                !.available_at = avail.val]))

----------------------------------------------------------------------------
(* Instances and the lists they hold, by identity *)

\* the lists made when the classes are defined: PLSearch.items_found and
\* PLSearch.error_messages (plscrape.py:150-151), IslingtonSearch.items_found
\* (islington.py:73)
ClassAttrs ==
    [c \in {"SearchResultItem", "BranchResultItem", "PLSearch",
             "IslingtonSearch"} |->
        CASE c = "PLSearch" ->
                 [a \in {"items_found", "error_messages"} |->
                     IF a = "items_found" THEN 1 ELSE 2]
          [] c = "IslingtonSearch" -> [a \in {"items_found"} |-> 3]
          [] OTHER -> [a \in {} |-> 0]]

\* the list attributes read on an instance of each class
ListAttrs(cls) ==
    CASE cls = "SearchResultItem" -> {"branches"}
      [] cls = "BranchResultItem" -> {"items"}
      [] cls = "PLSearch" -> {"items_found", "error_messages"}
      [] cls = "IslingtonSearch" -> {"items_found"}

\* self.attr: the instance's own attribute, else the attribute of the class
GetAttr(objs, o, attr) ==
    IF attr \in DOMAIN objs[o].own THEN objs[o].own[attr]
    ELSE ClassAttrs[objs[o].cls][attr]

MaxInstances == 2
NoOwn == [a \in {} |-> 0]

\* list.append on the list with identity id
ListAppend(lists, id, x) == [lists EXCEPT ![id] = Append(@, x)]

\* SearchResultItem(): self.branches = []
SearchResultItemInit ==
    /\ Len(h_objs) < MaxInstances
    /\ h_lists' = Append(h_lists, << >>)
    /\ h_objs' = Append(h_objs,
                        [cls |-> "SearchResultItem",
                         own |-> [a \in {"branches"} |-> Len(h_lists) + 1]])
    /\ h_self' = Len(h_objs) + 1
    /\ UNCHANGED <<globalVars, discVars, urlVars, searchVars, batchVars,
                   getVars, branchVars, configVars>>

\* SearchResultItem.add_branch_result: self.branches.append(bri)
add_branch_result ==
    \E o \in 1..Len(h_objs) :
        /\ h_objs[o].cls = "SearchResultItem"
        /\ Len(h_lists[GetAttr(h_objs, o, "branches")]) < MaxItems
        /\ h_lists' = ListAppend(h_lists, GetAttr(h_objs, o, "branches"), "bri")
        /\ h_self' = o
        /\ UNCHANGED <<h_objs, globalVars, discVars, urlVars, searchVars,
                       batchVars, getVars, branchVars, configVars>>

\* BranchResultItem(): self.items = []
BranchResultItemInit ==
    /\ Len(h_objs) < MaxInstances
    /\ h_lists' = Append(h_lists, << >>)
    /\ h_objs' = Append(h_objs,
                        [cls |-> "BranchResultItem",
                         own |-> [a \in {"items"} |-> Len(h_lists) + 1]])
    /\ h_self' = Len(h_objs) + 1
    /\ UNCHANGED <<globalVars, discVars, urlVars, searchVars, batchVars,
                   getVars, branchVars, configVars>>

\* BranchResultItem.add_item: self.items.append(cat_item)
BranchAddItem ==
    \E o \in 1..Len(h_objs) :
        /\ h_objs[o].cls = "BranchResultItem"
        /\ Len(h_lists[GetAttr(h_objs, o, "items")]) < MaxItems
        /\ h_lists' = ListAppend(h_lists, GetAttr(h_objs, o, "items"), "cat_item")
        /\ h_self' = o
        /\ UNCHANGED <<h_objs, globalVars, discVars, urlVars, searchVars,
                       batchVars, getVars, branchVars, configVars>>

\* PLSearch(): the class defines no __init__, so the instance starts with
\* no attribute of its own
PLSearchInit ==
    /\ Len(h_objs) < MaxInstances
    /\ h_objs' = Append(h_objs, [cls |-> "PLSearch", own |-> NoOwn])
    /\ h_self' = Len(h_objs) + 1
    /\ UNCHANGED <<h_lists, globalVars, discVars, urlVars, searchVars,
                   batchVars, getVars, branchVars, configVars>>

\* the end of a run_search that got a page: self.items_found is bound to the
\* list get_search_results built (plscrape.py:180, 213), of any length
PLSearchSetItemsFound ==
    \E o \in 1..Len(h_objs), n \in 0..MaxItems :
        /\ h_objs[o].cls = "PLSearch"
        /\ "items_found" \notin DOMAIN h_objs[o].own
        /\ h_lists' = Append(h_lists, [i \in 1..n |-> "item"])
        /\ h_objs' = [h_objs EXCEPT
                         ![o].own = [a \in {"items_found"} |-> Len(h_lists) + 1]]
        /\ h_self' = o
        /\ UNCHANGED <<globalVars, discVars, urlVars, searchVars, batchVars,
                       getVars, branchVars, configVars>>

\* IslingtonSearch(title, author) finding n items: every item is appended
\* to self.items_found, which the instance never binds (islington.py:136)
IslingtonSearchInit ==
    /\ Len(h_objs) < MaxInstances
    /\ \E n \in 0..MaxItems :
          LET objs == Append(h_objs, [cls |-> "IslingtonSearch", own |-> NoOwn])
              id == GetAttr(objs, Len(objs), "items_found")
          IN /\ Len(h_lists[id]) + n <= MaxItems
             /\ h_objs' = objs
             /\ h_lists' = [h_lists EXCEPT
                               ![id] = @ \o [i \in 1..n |-> "new_item"]]
             /\ h_self' = Len(objs)
    /\ UNCHANGED <<globalVars, discVars, urlVars, searchVars, batchVars,
                   getVars, branchVars, configVars>>

----------------------------------------------------------------------------
(* load_config *)

\* the lines a config file is made of here
ConfigLines ==
    {<<"islington", ",", " ", "prism.librarymanagementcloud.co.uk">>,
     <<"badline">>,
     << >>,
     <<" ", "\n">>,
     <<"#", " ", "comment">>,
     <<" ", "#", "islington", ",", "x">>,
     <<"Brent", ",", "LLC.ent.sirsidynix.net.uk", "\n">>,
     <<"islington", " ", ",", "other.example.org", " ", "#", "note">>,
     <<"camden", " ", "#", ",", "x">>,
     <<"camden", ",", " ">>,
     <<"camden", ",", "x", ",", "y">>,
     <<",", "x">>}
MaxConfigLines == 2

\* lines 643-660 on one line of the file: whether the line is skipped, and
\* if not whether it is a valid entry and which key and value it stores.
\* The variant below it keeps the letter case of the line.
ConfigEntryOf(line0) ==
    IF line0 = << >> \/ line0[1] = "#"
    THEN [skip |-> TRUE, valid |-> FALSE, k |-> << >>, v |-> << >>]
    ELSE LET line == Strip(StrSplit(line0, "#")[1])
             parts == StrSplit(line, ",")
         IN IF Len(parts) = 2 /\ Strip(parts[2]) # << >>
            THEN [skip |-> FALSE, valid |-> TRUE,
                  k |-> Strip(parts[1]), v |-> Strip(parts[2])]
            ELSE [skip |-> FALSE, valid |-> FALSE, k |-> << >>, v |-> << >>]
ConfigEntryKeepCase(text) == ConfigEntryOf(Strip(text))
ConfigEntry(text) == ConfigEntryOf(Lower(Strip(text)))

\* library_service_backends[k] = v
SetItem(map, k, v) ==
    [x \in DOMAIN map \cup {k} |-> IF x = k THEN v ELSE map[x]]

\* load_config is called on a file, with the map still empty (line 29)
load_config ==
    /\ c_pc = "idle"
    /\ library_service_backends = [s \in {} |-> << >>]
    /\ \E lines \in SeqsUpTo(ConfigLines, MaxConfigLines) :
          c_lines' = lines
    /\ c_index' = 0
    /\ count' = 0
    /\ num_invalid' = 0
    /\ c_pc' = "reading"
    /\ UNCHANGED <<globalVars, discVars, urlVars, searchVars, batchVars,
                   getVars, branchVars, heapVars>>

\* one turn of the loop over the lines of the file
LoadConfigLine ==
    /\ c_pc = "reading"
    /\ c_index < Len(c_lines)
    /\ c_index' = c_index + 1
    /\ LET e == ConfigEntry(c_lines[c_index + 1])
       IN /\ library_service_backends' =
                 IF e.valid THEN SetItem(library_service_backends, e.k, e.v)
                 ELSE library_service_backends
          /\ count' = IF e.valid THEN count + 1 ELSE count
          /\ num_invalid' = IF ~e.skip /\ ~e.valid THEN num_invalid + 1
                            ELSE num_invalid
    /\ UNCHANGED <<c_pc, c_lines, backends_dict, backend_objs, discVars, urlVars,
                   searchVars, batchVars, getVars, branchVars, heapVars>>

\* the end of the file: the summary is printed and load_config returns
LoadConfigReturn ==
    /\ c_pc = "reading"
    /\ c_index = Len(c_lines)
    /\ c_pc' = "returned"
    /\ UNCHANGED <<c_lines, c_index, count, num_invalid, globalVars, discVars,
                   urlVars, searchVars, batchVars, getVars, branchVars, heapVars>>

----------------------------------------------------------------------------
(* get_backend and init_backend *)

\* the backend objects a run constructs at most
MaxBackendObjs == 3

\* init_backend: constructs an instance for the two known identifiers only
\* and stores it under the identifier, whatever was stored there before;
\* gives the instance cache and the objects constructed afterwards
init_backend(backend_id, dict, objs) ==
    IF backend_id \in {backend_id_prism, backend_id_llc_sirsidynix}
    THEN LET cls == IF backend_id = backend_id_prism
                    THEN "PrismBackend" ELSE "LLCSirsidynixBackend"
         IN [dict |-> [b \in DOMAIN dict \cup {backend_id} |->
                          IF b = backend_id
                          THEN [cls |-> cls, instance |-> Len(objs) + 1]
                          ELSE dict[b]],
             objs |-> Append(objs, cls)]
    ELSE [dict |-> dict, objs |-> objs]

\* `b in backends_dict` (line 455), and a test that never finds the entry
InBackendsDictNever(b, dict) == FALSE
InBackendsDict(b, dict) == b \in DOMAIN dict

\* lines 455-459: the cached instance, or the one init_backend stores;
\* backends_dict[b] raises KeyError when init_backend stored nothing
BackendFor(b, dict, objs) ==
    LET ib == IF InBackendsDict(b, dict)
              THEN [dict |-> dict, objs |-> objs]
              ELSE init_backend(b, dict, objs)
    IN IF b \in DOMAIN ib.dict
       THEN [end |-> "return", cls |-> ib.dict[b].cls,
             instance |-> ib.dict[b].instance,
             dict |-> ib.dict, objs |-> ib.objs]
       ELSE [end |-> "KeyError", cls |-> "", instance |-> 0,
             dict |-> ib.dict, objs |-> ib.objs]

\* get_backend with a fallback to the Prism backend for an unmapped service
get_backend_fallback(libservice, map, dict, objs) ==
    BackendFor(IF libservice \in DOMAIN map THEN map[libservice]
               ELSE backend_id_prism, dict, objs)

\* get_backend: how it ends ("return", an exception, or exit(1)), the
\* backend returned, and the instance cache and the objects constructed
\* afterwards
get_backend(libservice, map, dict, objs) ==
    IF libservice \in DOMAIN map
    THEN BackendFor(map[libservice], dict, objs)
    ELSE [end |-> "exit", cls |-> "", instance |-> 0,
          dict |-> dict, objs |-> objs]

----------------------------------------------------------------------------
(* PLSearch.run_search *)

\* the locals of get_search_results before it runs
NoResults ==
    /\ html' = EmptyBody
    /\ record_index' = 0
    /\ gsr_items' = << >>
    /\ item' = NewSearchResultItem
    /\ detail_raw' = Unassigned

\* the call on a fresh PLSearch (do_search, do_search_from_file), up to the
\* fetch of the search page or to the end of the call
RunSearchCall(libservice, title, author) ==
    /\ s_pc \in {"idle", "returned"}
    /\ Len(backend_objs) < MaxBackendObjs
    /\ args' = [libservice |-> libservice, title |-> title, author |-> author]
    /\ raw_html' = Unassigned
    /\ NoResults
    /\ LET self0 == [NewPLSearch EXCEPT !.libservice = libservice]
           gb == get_backend(libservice, library_service_backends,
                             backends_dict, backend_objs)
       IN /\ backends_dict' = gb.dict
          /\ backend_objs' = gb.objs
          /\ backend' = gb.cls
          /\ backend_instance' = gb.instance
          /\ IF gb.end = "exit"
             THEN /\ s_pc' = "exited"
                  /\ exit_code' = 1
                  /\ s_exception' = "SystemExit"
                  /\ search' = self0
                  /\ fetches' = << >>
             ELSE IF gb.end = "KeyError"
             THEN /\ s_pc' = "raised"
                  /\ exit_code' = 0
                  /\ s_exception' = "KeyError"
                  /\ search' = self0
                  /\ fetches' = << >>
             ELSE LET self1 == [self0 EXCEPT
                                  !.catalogue_url =
                                      get_catalogue_url(gb.cls, libservice),
                                  !.title = title,
                                  !.author = author]
                  IN /\ exit_code' = 0
                     /\ s_exception' = "none"
                     /\ IF title = << >> /\ author = << >>
                        THEN /\ s_pc' = "returned"
                             /\ search' = self1
                             /\ fetches' = << >>
                        ELSE LET url == build_search_url(gb.cls,
                                            self1.catalogue_url, title, author,
                                            match_exact)
                             IN /\ s_pc' = "fetch_search"
                                /\ search' = [self1 EXCEPT !.search_url = url]
                                /\ fetches' = <<[kind |-> "search", url |-> url]>>
    /\ UNCHANGED <<library_service_backends, discVars, urlVars, extVars>>

\* PLSearch.run_search called on its own, as do_search calls it
run_search(libservice, title, author) ==
    /\ RunSearchCall(libservice, title, author)
    /\ UNCHANGED batchVars

\* get_search_results carried on from record k with the items so far: to
\* the next detail-page fetch, or to the return of run_search
PrismContinue(records, k, items) ==
    LET sc == PrismScan(records, k, items)
    IN /\ record_index' = sc.k
       /\ gsr_items' = sc.items
       /\ item' = sc.item
       /\ s_exception' = "none"
       /\ IF sc.done
          THEN /\ s_pc' = "returned"
               /\ search' = [search EXCEPT !.items_found = sc.items]
               /\ fetches' = fetches
          ELSE /\ s_pc' = "fetch_detail"
               /\ search' = search
               /\ fetches' = Append(fetches,
                                    [kind |-> "detail", url |-> sc.item.link])

\* the call ends with an exception
Raise(exc) ==
    /\ s_pc' = "raised"
    /\ s_exception' = exc

\* lines 173-180: the search page arrives (or fails to)
SearchPageResponse(pages) ==
    /\ s_pc = "fetch_search"
    /\ \E outcome \in FetchOutcomes(pages) :
       LET got == simple_get(outcome)
       IN IF got.exc # "none"
          THEN /\ Raise(got.exc)
               /\ UNCHANGED <<search, raw_html, html, record_index, gsr_items,
                              item, fetches>>
          ELSE /\ raw_html' = got.value
               /\ IF ~Truthy(got.value)
                  THEN /\ search' = [search EXCEPT
                                      !.error_message = "could not get web page"]
                       /\ s_pc' = "returned"
                       /\ UNCHANGED <<html, record_index, gsr_items, item,
                                      fetches, s_exception>>
                  ELSE /\ html' = got.value
                       /\ IF backend = "PrismBackend"
                          THEN PrismContinue(PrismRecords(got.value), 1, << >>)
                          ELSE LET res == SirsidynixScan(
                                            SirsidynixRecords(got.value), 1, << >>)
                               IN /\ gsr_items' = res.items
                                  /\ IF res.exc # "none"
                                     THEN /\ Raise(res.exc)
                                          /\ UNCHANGED search
                                     ELSE /\ s_pc' = "returned"
                                          /\ s_exception' = "none"
                                          /\ search' = [search EXCEPT
                                                 !.items_found = res.items]
                                  /\ UNCHANGED <<record_index, item, fetches>>
    /\ UNCHANGED <<args, backend, backend_instance, detail_raw, exit_code,
                   globalVars, discVars,
                   urlVars, batchVars, extVars>>

\* lines 253-273 and the rest of the loop: the detail page of the current
\* record arrives (or fails to)
DetailPageResponse(pages) ==
    /\ s_pc = "fetch_detail"
    /\ \E outcome \in FetchOutcomes(pages) :
       LET got == simple_get(outcome)
       IN IF got.exc # "none"
          THEN /\ Raise(got.exc)
               /\ UNCHANGED <<search, detail_raw, record_index, gsr_items, item,
                              fetches>>
          ELSE /\ detail_raw' = got.value
               /\ IF BeautifulSoupRaises(got.value)
                  THEN /\ Raise("TypeError")
                       /\ UNCHANGED <<search, record_index, gsr_items, item,
                                      fetches>>
                  ELSE PrismContinue(PrismRecords(html), record_index + 1,
                           Append(gsr_items,
                                  PrismAvailabilityOf(item, got.value)))
    /\ UNCHANGED <<args, backend, backend_instance, raw_html, html, exit_code,
                   globalVars,
                   discVars, urlVars, batchVars, extVars>>

----------------------------------------------------------------------------
(* do_search_from_file *)

\* the lines a batch file is made of here
BatchLines ==
    {<<"l", "=", "islington">>,
     <<"L", " ", "=", " ", "hackney", "\n">>,
     <<"Author", "=", "b">>,
     <<"t", "=", "a">>,
     <<"t", "=", "a", "=", "b">>,
     <<"#", "t", "=", "a">>,
     <<"x", "=", "a">>}
MaxBatchLines == 3

\* lines 484-517 on one line of the file: what the line is, and its value.
\* The variant above it runs a search on an author line as well.
ParseBatchLineAuthorSearches(text) ==
    LET line == Lower(Strip(text))
        parts == StrSplit(line, "=")
    IN IF line = << >> \/ line[1] = "#" THEN [kind |-> "skip", value |-> << >>]
       ELSE IF Len(parts) # 2 THEN [kind |-> "malformed", value |-> << >>]
       ELSE [kind |-> IF Strip(parts[1]) \in {<<"l">>, <<"library">>,
                                               <<"libraryservice">>}
                      THEN "libservice"
                      ELSE IF Strip(parts[1]) \in {<<"t">>, <<"title">>,
                                                    <<"a">>, <<"author">>}
                      THEN "title" ELSE "unknown",
             value |-> Strip(parts[2])]
ParseBatchLine(text) ==
    LET line == Lower(Strip(text))
        parts == StrSplit(line, "=")
    IN IF line = << >> \/ line[1] = "#" THEN [kind |-> "skip", value |-> << >>]
       ELSE IF Len(parts) # 2 THEN [kind |-> "malformed", value |-> << >>]
       ELSE LET param == Strip(parts[1])
                value == Strip(parts[2])
            IN IF param \in {<<"l">>, <<"library">>, <<"libraryservice">>}
               THEN [kind |-> "libservice", value |-> value]
               ELSE IF param \in {<<"a">>, <<"author">>}
               THEN [kind |-> "author", value |-> value]
               ELSE IF param \in {<<"t">>, <<"title">>}
               THEN [kind |-> "title", value |-> value]
               ELSE [kind |-> "unknown", value |-> value]

\* do_search_from_file is called on a file
do_search_from_file ==
    /\ b_pc = "idle"
    /\ s_pc = "idle"
    /\ \E lines \in SeqsUpTo(BatchLines, MaxBatchLines) : b_lines' = lines
    /\ b_index' = 0
    /\ b_libservice' = << >>
    /\ b_author' = << >>
    /\ b_title' = << >>
    /\ search_results' = << >>
    /\ b_log' = << >>
    /\ b_pc' = "reading"
    /\ UNCHANGED <<globalVars, discVars, urlVars, searchVars, extVars>>

\* one turn of the loop over the lines: a title line creates a PLSearch and
\* calls run_search on it
BatchLine ==
    /\ b_pc = "reading"
    /\ b_index < Len(b_lines)
    /\ b_index' = b_index + 1
    /\ LET p == ParseBatchLine(b_lines[b_index + 1])
       IN /\ b_libservice' = IF p.kind = "libservice" THEN p.value
                             ELSE b_libservice
          /\ b_author' = IF p.kind = "author" THEN p.value ELSE b_author
          /\ b_title' = IF p.kind = "title" THEN p.value ELSE b_title
          /\ b_log' = IF p.kind \in {"malformed", "unknown"}
                      THEN Append(b_log, p.kind) ELSE b_log
          /\ IF p.kind = "title"
             THEN /\ RunSearchCall(b_libservice, p.value, b_author)
                  /\ b_pc' = "searching"
             ELSE /\ b_pc' = "reading"
                  /\ UNCHANGED <<globalVars, discVars, urlVars, searchVars,
                                 extVars>>
    /\ UNCHANGED <<b_lines, search_results>>

\* run_search has returned: search_results = search_results + [search],
\* and the session is shown
BatchCollect ==
    /\ b_pc = "searching"
    /\ s_pc = "returned"
    /\ search_results' = Append(search_results, search)
    /\ b_pc' = "reading"
    /\ UNCHANGED <<b_lines, b_index, b_libservice, b_author, b_title, b_log,
                   globalVars, discVars, urlVars, searchVars, extVars>>

\* the end of the file: search_results is returned
BatchReturn ==
    /\ b_pc = "reading"
    /\ b_index = Len(b_lines)
    /\ b_pc' = "returned"
    /\ UNCHANGED <<b_lines, b_index, b_libservice, b_author, b_title,
                   search_results, b_log, globalVars, discVars, urlVars,
                   searchVars, extVars>>

\* the pages the searches of a batch are answered with
BatchPages ==
    {[none |-> FALSE, empty |-> FALSE, searchResults |-> p,
      results_wrapper |-> << >>] :
        p \in {<< >>, <<<<[has_id |-> TRUE, id |-> <<"items/", "4", "2", "?">>,
                           summary |-> TRUE]>>>>}}

----------------------------------------------------------------------------
(* Inputs of the searches *)

MaxContainers == 1
MaxRecords == 2
MaxLinkLen == 4

SearchTexts == {<< >>, <<"a", " ", "b">>}

\* the id attributes of the records of the search runs
BasicLinks == {<<"items/", "4", "2", "?">>}

\* the tokens links are made of, and every link of at most MaxLinkLen tokens
LinkTokens == {"items/", "4", "2", "?"}
AllLinks == SeqsUpTo(LinkTokens, MaxLinkLen)

\* Prism records: an optional id attribute, with or without a div.summary
PrismRecordsOver(links) ==
    {[has_id |-> TRUE, id |-> l, summary |-> sm] :
        l \in links, sm \in BOOLEAN} \cup
    {[has_id |-> FALSE, id |-> << >>, summary |-> sm] : sm \in BOOLEAN}

\* span.FIELD nestings: complete, without the span, without the outer div,
\* without an inner div, and with a single inner div
CompleteNesting == [span |-> TRUE, outer |-> TRUE, inner |-> <<"label", "value">>]
SingleInnerNesting == [span |-> TRUE, outer |-> TRUE, inner |-> <<"label">>]
Nestings ==
    {CompleteNesting,
     [span |-> FALSE, outer |-> FALSE, inner |-> << >>],
     [span |-> TRUE, outer |-> FALSE, inner |-> << >>],
     [span |-> TRUE, outer |-> TRUE, inner |-> << >>],
     SingleInnerNesting}

\* records whose two fields have the same nesting, or one of them complete
\* and the other with a single inner div
SirsidynixRecordSet ==
    {r \in [PUBDATE : Nestings, PARENT_AVAILABLE : Nestings] :
        \/ r.PUBDATE = r.PARENT_AVAILABLE
        \/ {r.PUBDATE, r.PARENT_AVAILABLE} =
               {CompleteNesting, SingleInnerNesting}}

\* the ways to cut a sequence of len records into 1..MaxContainers
\* consecutive containers: the positions after which a new container starts
Cuts(len) ==
    UNION {{c \in [1..(n - 1) -> 0..len] :
                \A i \in 1..(n - 2) : c[i] <= c[i + 1]} :
           n \in 1..MaxContainers}

\* the containers a cut makes of the records f
Split(f, c) ==
    [i \in 1..(Len(c) + 1) |->
        SubSeq(f, (IF i = 1 THEN 0 ELSE c[i - 1]) + 1,
                  IF i = Len(c) + 1 THEN Len(f) ELSE c[i])]

\* no container at all, or at most maxRecords records in up to
\* MaxContainers containers
ContainersOver(records, maxRecords) ==
    {<< >>} \cup
    UNION {{Split(f, c) : c \in Cuts(Len(f))} :
           f \in SeqsUpTo(records, maxRecords)}

\* pages in the Prism markup, pages in the Sirsidynix markup
PrismPages(links, maxRecords) ==
    {[none |-> FALSE, empty |-> FALSE, searchResults |-> p,
      results_wrapper |-> << >>] :
        p \in ContainersOver(PrismRecordsOver(links), maxRecords)}

SirsidynixPages ==
    {[none |-> FALSE, empty |-> FALSE, searchResults |-> << >>,
      results_wrapper |-> w] :
        w \in ContainersOver(SirsidynixRecordSet, MaxRecords)}

SearchPages == PrismPages(BasicLinks, MaxRecords) \cup SirsidynixPages

DetailPages ==
    {[none |-> FALSE, empty |-> FALSE, availability |-> << >>],
     [none |-> FALSE, empty |-> FALSE,
      availability |-> <<[p_branches |-> << >>, li |-> << >>]>>],
     [none |-> FALSE, empty |-> FALSE,
      availability |-> <<[p_branches |-> <<"Available at: Central">>,
                          li |-> <<[name |-> "Central",
                                    rows |-> <<StatusRow(<<"Available">>),
                                               StatusRow(<<"On", " ", "Loan">>)>>
                                   ]>>]>>]}

\* pages with a single Prism record, over every link
OneRecordPages ==
    {[none |-> FALSE, empty |-> FALSE, searchResults |-> <<<<r>>>>,
      results_wrapper |-> << >>] : r \in PrismRecordsOver(AllLinks)}

----------------------------------------------------------------------------
(* Specifications *)

InitGlobals ==
    /\ library_service_backends \in ConfigMaps
    /\ backends_dict = [b \in {} |-> 0]
    /\ backend_objs = << >>

InitDiscover ==
    /\ d_pc = "idle"
    /\ d_libservice = << >>
    /\ d_site_backends = << >>
    /\ d_index = 0
    /\ report = << >>
    /\ site_engine_for_libservice = << >>
    /\ d_probes = << >>
    /\ d_outcomes = << >>
    /\ d_exception = "none"

InitUrl ==
    /\ u_pc = "idle"
    /\ u_backend = "PrismBackend"
    /\ u_catalogue_url = << >>
    /\ u_title = << >>
    /\ u_author = << >>
    /\ u_match_exact = TRUE
    /\ u_url = << >>

InitSearch ==
    /\ s_pc = "idle"
    /\ args = [libservice |-> << >>, title |-> << >>, author |-> << >>]
    /\ search = NewPLSearch
    /\ backend = ""
    /\ backend_instance = 0
    /\ raw_html = Unassigned
    /\ html = EmptyBody
    /\ record_index = 0
    /\ gsr_items = << >>
    /\ item = NewSearchResultItem
    /\ detail_raw = Unassigned
    /\ fetches = << >>
    /\ s_exception = "none"
    /\ exit_code = 0

InitBatch ==
    /\ b_pc = "idle"
    /\ b_lines = << >>
    /\ b_index = 0
    /\ b_libservice = << >>
    /\ b_author = << >>
    /\ b_title = << >>
    /\ search_results = << >>
    /\ b_log = << >>

InitBranch ==
    /\ bri = BranchResultItem
    /\ bri_src = << >>

InitHeap ==
    /\ h_lists = <<<< >>, << >>, << >>>>
    /\ h_objs = << >>
    /\ h_self = 0

InitConfig ==
    /\ c_pc = "idle"
    /\ c_lines = << >>
    /\ c_index = 0
    /\ count = 0
    /\ num_invalid = 0

InitGet ==
    /\ g_pc = "idle"
    /\ g_outcome = [kind |-> "RequestException"]
    /\ g_result = [exc |-> "none", value |-> None]

Init ==
    /\ InitGlobals /\ InitDiscover /\ InitUrl /\ InitSearch /\ InitBatch
    /\ InitGet /\ InitBranch /\ InitHeap /\ InitConfig

NextDiscover ==
    \/ \E l \in Services, sb \in SeqsUpTo(BackendClasses, MaxEngines) :
           discover_catalogue(l, sb)
    \/ DiscoverProbe

SpecDiscover == Init /\ [][NextDiscover]_vars

NextUrl == BuildSearchUrl

SpecUrl == Init /\ [][NextUrl]_vars

\* searches over every service and small pages
NextSearch ==
    \/ \E l \in Services, t \in SearchTexts, a \in SearchTexts :
           run_search(l, t, a)
    \/ SearchPageResponse(SearchPages)
    \/ DetailPageResponse(DetailPages)

SpecSearch == Init /\ [][NextSearch]_vars

\* Prism searches over pages of one record, with every link
NextItemId ==
    \/ \E l \in {s \in Services :
                    s \in DOMAIN library_service_backends
                    /\ library_service_backends[s] = backend_id_prism} :
           run_search(l, <<"a">>, << >>)
    \/ SearchPageResponse(OneRecordPages)
    \/ DetailPageResponse(DetailPages)

SpecItemId == Init /\ [][NextItemId]_vars

NextGet == SimpleGet(SearchPages \cup DetailPages)
SpecGet == Init /\ [][NextGet]_vars

NextBranch == GetBranchResultItem \/ AddItem
SpecBranch == Init /\ [][NextBranch]_vars

NextHeap ==
    \/ SearchResultItemInit
    \/ add_branch_result
    \/ BranchResultItemInit
    \/ BranchAddItem
    \/ PLSearchInit
    \/ PLSearchSetItemsFound
    \/ IslingtonSearchInit
SpecHeap == Init /\ [][NextHeap]_vars

NextConfig == load_config \/ LoadConfigLine \/ LoadConfigReturn
SpecConfig == Init /\ [][NextConfig]_vars

NextBatch ==
    \/ do_search_from_file
    \/ BatchLine
    \/ SearchPageResponse(BatchPages)
    \/ DetailPageResponse(DetailPages)
    \/ BatchCollect
    \/ BatchReturn
SpecBatch == Init /\ [][NextBatch]_vars

\* searches one after the other in one run, over every service
NextCache ==
    \/ \E l \in CacheServices, t \in SearchTexts, a \in SearchTexts :
           run_search(l, t, a)
    \/ SearchPageResponse(BatchPages)
    \/ DetailPageResponse(DetailPages)
SpecCache == Init /\ [][NextCache]_vars

----------------------------------------------------------------------------
(* Properties of discover_catalogue (checked under SpecDiscover) *)

DiscoverOver == d_pc \in {"returned", "raised"}

\* the positions of the probes that met the success criterion
SuccessfulProbes ==
    {i \in 1..Len(d_outcomes) : ProbeSucceeds(d_libservice, d_outcomes[i])}

FirstSuccessfulProbe ==
    CHOOSE i \in SuccessfulProbes : \A j \in SuccessfulProbes : i <= j

\* C5: when some candidate's probe succeeds, discover_catalogue returns the
\* identifier of the first such candidate in the order of site_backends.
C5_ReturnsFirstSuccessful ==
    (DiscoverOver /\ SuccessfulProbes # {}) =>
        /\ d_pc = "returned"
        /\ site_engine_for_libservice =
               get_id(d_site_backends[FirstSuccessfulProbe])

\* C6: a backend is selected only if its probe answered 200 with the service
\* identifier in the final URL; a candidate answering 200 without the
\* identifier is rejected and the next candidate is probed; a candidate
\* answering 200 with the identifier is selected and its identifier returned.
C6_SelectedIffCriterion ==
    /\ site_engine_for_libservice # << >> =>
           \E i \in SuccessfulProbes :
               site_engine_for_libservice = get_id(d_site_backends[i])
    /\ \A i \in 1..Len(d_outcomes) :
           (/\ d_outcomes[i].kind = "response"
            /\ d_outcomes[i].status_code = 200
            /\ ~Contains(d_outcomes[i].url, d_libservice)
            /\ i < Len(d_site_backends)
            /\ d_pc # "loop") => Len(d_probes) > i
    /\ (DiscoverOver /\ SuccessfulProbes # {}) =>
           /\ d_pc = "returned"
           /\ \E i \in SuccessfulProbes :
                  site_engine_for_libservice = get_id(d_site_backends[i])

\* C7: when no candidate meets the success criterion (also when every probe
\* raises a network exception) discover_catalogue probes every candidate in
\* order, does not raise, returns the empty identifier, and never touches
\* the service->backend map.
C7_NoneFoundState ==
    (DiscoverOver /\ SuccessfulProbes = {}) =>
        /\ d_pc = "returned"
        /\ d_exception = "none"
        /\ site_engine_for_libservice = << >>
        /\ Len(d_probes) = Len(d_site_backends)
        /\ \A i \in 1..Len(d_site_backends) :
               d_probes[i] = get_catalogue_url(d_site_backends[i], d_libservice)

C7_NoneFound ==
    /\ []C7_NoneFoundState
    /\ [][library_service_backends' = library_service_backends]_vars

\* every probe of a list of at least two candidates raised, and the call
\* has returned
C7_Witness ==
    /\ d_pc = "returned"
    /\ Len(d_site_backends) >= 2
    /\ Len(d_outcomes) = Len(d_site_backends)
    /\ \A i \in 1..Len(d_outcomes) : d_outcomes[i].kind = "RequestException"

----------------------------------------------------------------------------
(* Properties of build_search_url (checked under SpecUrl) *)

\* C10: the Prism search URL has a clause for each non-empty field, none for
\* an empty field, and the AND connector if and only if both title and
\* author are non-empty.
C10_AndOnlyWhenBoth ==
    (u_pc = "built" /\ u_backend = "PrismBackend"
        /\ (u_title # << >> \/ u_author # << >>)) =>
        /\ Contains(u_url, <<"title%3A%28">>) <=> u_title # << >>
        /\ Contains(u_url, <<"author%3A%28">>) <=> u_author # << >>
        /\ Contains(u_url, <<"AND">>) <=> (u_title # << >> /\ u_author # << >>)

\* the forms a field value can take inside a clause: as given, or with its
\* spaces replaced by "+"
FieldForms(text) == {text, ReplaceSpaces(text)}

StartsWith(s, prefix) ==
    Len(s) >= Len(prefix) /\ SubSeq(s, 1, Len(prefix)) = prefix

EndsWith(s, suffix) ==
    Len(s) >= Len(suffix)
        /\ SubSeq(s, Len(s) - Len(suffix) + 1, Len(s)) = suffix

\* the positions at which a token occurs in a string
PositionsOf(s, token) == {i \in 1..Len(s) : s[i] = token}

\* C11: for every catalogue URL and (title, author) with at least one
\* non-empty, the Prism search URL is catalogue_url + 'items?query=' + title
\* clause + '+AND+' + author clause + '#availability', with the title clause
\* title%3A%28<title>%29 (quoted in exact-match mode), the author clause
\* author%3A%28<author>%29, no clause for an absent field, and the URL always
\* ends with '#availability'.
C11_PrismUrlForm ==
    (u_pc = "built" /\ u_backend = "PrismBackend"
        /\ (u_title # << >> \/ u_author # << >>)) =>
        /\ EndsWith(u_url, <<"#availability">>)
        /\ \E t \in FieldForms(u_title), a \in FieldForms(u_author) :
              LET title_clause ==
                      IF u_title = << >> THEN << >>
                      ELSE IF u_match_exact
                           THEN <<"title%3A%28", "%22">> \o t \o <<"%22", "%29">>
                           ELSE <<"title%3A%28">> \o t \o <<"%29">>
                  author_clause ==
                      IF u_author = << >> THEN << >>
                      ELSE <<"author%3A%28">> \o a \o <<"%29">>
                  connector ==
                      IF u_title # << >> /\ u_author # << >>
                      THEN <<"+", "AND", "+">> ELSE << >>
              IN u_url = u_catalogue_url \o <<"items?query=">> \o title_clause
                             \o connector \o author_clause
                             \o <<"#availability">>

\* C12: the URL of LLCSirsidynixBackend.build_search_url starts with
\* catalogue_url + 'search/results?qu=', ends with '+&h=1', has a TITLE%3D
\* clause exactly when the title is non-empty and an AUTHOR%3D clause exactly
\* when the author is non-empty, and the title clause comes before the
\* author clause when both are present.
C12_SirsidynixUrlForm ==
    (u_pc = "built" /\ u_backend = "LLCSirsidynixBackend") =>
        /\ StartsWith(u_url, u_catalogue_url \o <<"search/results?qu=">>)
        /\ EndsWith(u_url, <<"+", "&h=1">>)
        /\ PositionsOf(u_url, "TITLE%3D") # {} <=> u_title # << >>
        /\ PositionsOf(u_url, "AUTHOR%3D") # {} <=> u_author # << >>
        /\ (u_title # << >> /\ u_author # << >>) =>
               \A i \in PositionsOf(u_url, "TITLE%3D"),
                  j \in PositionsOf(u_url, "AUTHOR%3D") : i < j

C12_Witness ==
    /\ u_pc = "built" /\ u_backend = "LLCSirsidynixBackend"
    /\ u_title # << >> /\ u_author # << >>
    /\ Contains(u_url, <<"TITLE%3D">>) /\ Contains(u_url, <<"AUTHOR%3D">>)

----------------------------------------------------------------------------
(* Properties of simple_get (checked under SpecGet) *)

\* is_good_response as the specification words it: status 200 and a
\* Content-Type that contains "html" in any letter case
HtmlOk(outcome) ==
    /\ outcome.kind = "response"
    /\ outcome.status_code = 200
    /\ "Content-Type" \in DOMAIN outcome.headers
    /\ Contains(Lower(outcome.headers["Content-Type"]), <<"html">>)

\* C18: simple_get returns the response body exactly when the status is 200
\* and the content type contains "html" in any letter case; for a transport
\* failure, a non-200 status, a non-HTML or an absent content type it
\* returns the no-content value, and it never raises.
C18_SimpleGetTotal ==
    g_pc # "idle" =>
        /\ g_pc = "returned"
        /\ g_result.exc = "none"
        /\ IF HtmlOk(g_outcome)
           THEN g_result.value = g_outcome.content
           ELSE g_result.value = None

----------------------------------------------------------------------------
(* Properties of CatalogueItem and BranchResultItem (under SpecBranch) *)

\* equality with "available" in any letter case, leaving aside blanks
\* around the status
EqualsAvailable(status) == Lower(Strip(status)) = <<"available">>

\* C15: CatalogueItem.is_available is true exactly when the status equals
\* "available" in any letter case: true for "Available" and for "AVAILABLE "
\* with a trailing space, false for "On Loan".
C15_AvailableAnyCase ==
    \A k \in 1..Len(bri.items) :
        /\ CatalogueItemIsAvailable(bri.items[k])
               <=> EqualsAvailable(bri.items[k].status)
        /\ bri.items[k].status \in {<<"Available">>, <<"AVAILABLE", " ">>}
               => CatalogueItemIsAvailable(bri.items[k])
        /\ bri.items[k].status = <<"On", " ", "Loan">>
               => ~CatalogueItemIsAvailable(bri.items[k])

\* C15 as the code has it: is_available compares the lower-cased status
\* with "available" without trimming, so it is true for "Available", false
\* for "On Loan" and false for "AVAILABLE " with a trailing space; the
\* status get_branch_result_item reads from a table cell is trimmed, so a
\* cell that reads "AVAILABLE " gives an available item.
C15_AvailableAnyCaseUntrimmed ==
    \A k \in 1..Len(bri.items) :
        LET it == bri.items[k]
        IN /\ it.status \in {<<"Available">>, <<"AVAILABLE">>,
                               <<"available">>}
                  <=> CatalogueItemIsAvailable(it)
           /\ it.status \in {<<"On", " ", "Loan">>, <<"AVAILABLE", " ">>}
                  => ~CatalogueItemIsAvailable(it)
           /\ bri_src[k].parsed =>
                  /\ it.status = Strip(bri_src[k].cell)
                  /\ CatalogueItemIsAvailable(it)
                         <=> EqualsAvailable(bri_src[k].cell)

\* one item whose status was set to "AVAILABLE " and is not available, and
\* one read from a cell with that text, which is
C15_Witness ==
    \E j, k \in 1..Len(bri.items) :
        /\ ~bri_src[j].parsed
        /\ bri.items[j].status = <<"AVAILABLE", " ">>
        /\ ~CatalogueItemIsAvailable(bri.items[j])
        /\ bri_src[k].parsed
        /\ bri_src[k].cell = <<"AVAILABLE", " ">>
        /\ CatalogueItemIsAvailable(bri.items[k])

\* C16: after any sequence of add_item calls, BranchResultItem.is_available
\* is true exactly when at least one of the items added is available; it is
\* false for a branch with no items.
C16_BranchAvailableIffAny ==
    /\ Len(bri.items) = Len(bri_src)
    /\ BranchIsAvailable(bri) <=>
           \E k \in 1..Len(bri_src) :
               Lower(IF bri_src[k].parsed THEN Strip(bri_src[k].cell)
                     ELSE bri_src[k].cell) = <<"available">>
    /\ bri_src = << >> => ~BranchIsAvailable(bri)

\* a branch whose first item is on loan and whose second is available
C16_Witness ==
    /\ Len(bri.items) = 2
    /\ ~bri_src[1].parsed /\ ~bri_src[2].parsed
    /\ bri.items[1].status = <<"On", " ", "Loan">>
    /\ bri.items[2].status = <<"Available">>
    /\ BranchIsAvailable(bri)

----------------------------------------------------------------------------
(* Properties of the instances' lists (checked under SpecHeap) *)

\* the sequences an instance holds, read through the instance
SeqFields(lists, objs, o) ==
    [a \in ListAttrs(objs[o].cls) |-> lists[GetAttr(objs, o, a)]]

\* no list is reached from two instances
NoSharedList(objs) ==
    \A o1, o2 \in 1..Len(objs) :
        o1 # o2 =>
            \A a1 \in ListAttrs(objs[o1].cls), a2 \in ListAttrs(objs[o2].cls) :
                GetAttr(objs, o1, a1) # GetAttr(objs, o2, a2)

\* C17: every instance owns its sequence fields: an operation that adds to
\* or replaces the branches of a SearchResultItem, the items of a
\* BranchResultItem or the items_found / error list of a search session
\* never changes the corresponding sequence of another instance; two
\* instances never share a list and a later search never alters the items
\* of an earlier session.
C17_OwnSequences ==
    [][/\ \A o \in 1..Len(h_objs) :
              o # h_self' =>
                  SeqFields(h_lists', h_objs', o) = SeqFields(h_lists, h_objs, o)
       /\ NoSharedList(h_objs')]_vars

----------------------------------------------------------------------------
(* Properties of load_config (checked under SpecConfig) *)

\* a line in lower case without the blanks around it
Folded(text) == Lower(Strip(text))

\* blank lines and comment lines
IsBlankOrComment(text) == Folded(text) = << >> \/ Folded(text)[1] = "#"

\* the data of a line: what stands before a comment sign
DataOf(text) ==
    LET f == Folded(text)
        signs == PositionsOf(f, "#")
    IN IF signs = {} THEN f
       ELSE SubSeq(f, 1, (CHOOSE i \in signs : \A j \in signs : i <= j) - 1)

\* a line of the form `key, value` with a non-empty value
TheComma(text) == CHOOSE i \in PositionsOf(DataOf(text), ",") : TRUE
IsKeyValue(text) ==
    /\ ~IsBlankOrComment(text)
    /\ Cardinality(PositionsOf(DataOf(text), ",")) = 1
    /\ \E i \in (TheComma(text) + 1)..Len(DataOf(text)) :
          DataOf(text)[i] \notin Whitespace
KeyOf(text) == Strip(SubSeq(DataOf(text), 1, TheComma(text) - 1))
ValueOf(text) ==
    Strip(SubSeq(DataOf(text), TheComma(text) + 1, Len(DataOf(text))))

\* the lines read so far that are entries, and that are invalid
EntriesRead == {i \in 1..c_index : IsKeyValue(c_lines[i])}
InvalidRead ==
    {i \in 1..c_index : ~IsBlankOrComment(c_lines[i]) /\ ~IsKeyValue(c_lines[i])}

\* C14: load_config, starting from an empty map, skips blank and comment
\* lines, stores lower(key) -> lower(value) for each line `key, value` with
\* a non-empty value, leaves the map unchanged on every other line and
\* counts it invalid, and reads on to the end of the file: valid count +
\* invalid count is the number of non-blank non-comment lines, and the lines
\* `islington, prism.librarymanagementcloud.co.uk` and `badline` give a map
\* with exactly one entry and an invalid count of 1.
C14_LoadConfig ==
    c_pc # "idle" =>
        /\ DOMAIN library_service_backends =
               {KeyOf(c_lines[i]) : i \in EntriesRead}
        /\ \A i \in EntriesRead :
               (\A j \in EntriesRead :
                    j > i => KeyOf(c_lines[j]) # KeyOf(c_lines[i])) =>
                   library_service_backends[KeyOf(c_lines[i])] =
                       ValueOf(c_lines[i])
        /\ count = Cardinality(EntriesRead)
        /\ num_invalid = Cardinality(InvalidRead)
        /\ count + num_invalid =
               Cardinality({i \in 1..c_index : ~IsBlankOrComment(c_lines[i])})
        /\ c_pc = "returned" => c_index = Len(c_lines)
        /\ (c_pc = "returned"
              /\ c_lines = <<<<"islington", ",", " ",
                               "prism.librarymanagementcloud.co.uk">>,
                             <<"badline">>>>) =>
               /\ library_service_backends =
                      [s \in {<<"islington">>} |-> backend_id_prism]
               /\ num_invalid = 1

\* the file with the lines `islington, prism...` and `badline` has been
\* read to its end
C14_Witness ==
    /\ c_pc = "returned"
    /\ c_lines = <<<<"islington", ",", " ",
                     "prism.librarymanagementcloud.co.uk">>,
                   <<"badline">>>>
    /\ Cardinality(DOMAIN library_service_backends) = 1
    /\ num_invalid = 1

----------------------------------------------------------------------------
(* Properties of do_search_from_file (checked under SpecBatch) *)

\* a well-formed line: not blank, not a comment, `param=value` with one
\* equals sign; its parameter name and its value
TheEquals(text) == CHOOSE i \in PositionsOf(Folded(text), "=") : TRUE
IsParamValue(text) ==
    /\ ~IsBlankOrComment(text)
    /\ Cardinality(PositionsOf(Folded(text), "=")) = 1
ParamOf(text) == Strip(SubSeq(Folded(text), 1, TheEquals(text) - 1))
ValueAfterEquals(text) ==
    Strip(SubSeq(Folded(text), TheEquals(text) + 1, Len(Folded(text))))

\* the lines of the file that set a parameter with one of the given names
LinesSetting(names) ==
    {i \in 1..Len(b_lines) :
        IsParamValue(b_lines[i]) /\ ParamOf(b_lines[i]) \in names}
TitleLines == LinesSetting({<<"t">>, <<"title">>})
LibraryLines == LinesSetting({<<"l">>, <<"library">>, <<"libraryservice">>})
AuthorLines == LinesSetting({<<"a">>, <<"author">>})

\* the value most recently set before line i by one of the lines in `set`
LastSet(set, i) ==
    LET before == {j \in set : j < i}
    IN IF before = {} THEN << >>
       ELSE ValueAfterEquals(
                b_lines[CHOOSE j \in before : \A m \in before : m <= j])

\* the k-th title line among the lines read so far
TitlesRead == {i \in TitleLines : i <= b_index}
NthTitle(k) ==
    CHOOSE i \in TitlesRead : Cardinality({j \in TitlesRead : j <= i}) = k

\* the arguments the search of title line i is to be run with
ExpectedArgs(i) ==
    [libservice |-> LastSet(LibraryLines, i),
     title |-> ValueAfterEquals(b_lines[i]),
     author |-> LastSet(AuthorLines, i)]

\* the sessions collected so far are those of the title lines read so far,
\* in file order, each with the service and author set before its line
SessionsInFileOrder ==
    \A k \in 1..Len(search_results) :
        /\ search_results[k].libservice = ExpectedArgs(NthTitle(k)).libservice
        /\ search_results[k].title = ExpectedArgs(NthTitle(k)).title
        /\ search_results[k].author = ExpectedArgs(NthTitle(k)).author

\* the run is over: the file was read to its end, or a search has ended
\* the process
BatchStopped == b_pc = "searching" /\ s_pc \in {"raised", "exited"}
BatchOver == b_pc = "returned" \/ BatchStopped

\* C13: for every batch file, do_search_from_file runs exactly one search
\* per well-formed title line and returns the sessions in file order, each
\* run with the library service and author most recently set by earlier
\* lines; library and author lines alone never trigger a search.
C13_OneSearchPerTitleLine ==
    BatchOver =>
        /\ b_pc = "returned"
        /\ Len(search_results) = Cardinality(TitleLines)
        /\ SessionsInFileOrder

\* C13 as the code has it: one search is run per well-formed title line, in
\* file order, up to and including the first search that does not return
\* (exit for an unmapped service, or an exception out of run_search), which
\* ends the run; each search is run with the service and author most
\* recently set; when every search returns, the sessions returned are those
\* of all the title lines in file order; no other line starts a search.
C13_OneSearchPerTitleLineReached ==
    b_pc # "idle" =>
        /\ Len(search_results) + (IF b_pc = "searching" THEN 1 ELSE 0)
               = Cardinality(TitlesRead)
        /\ SessionsInFileOrder
        /\ b_pc = "searching" =>
               /\ b_index \in TitleLines
               /\ args = ExpectedArgs(b_index)
        /\ b_pc = "returned" =>
               /\ b_index = Len(b_lines)
               /\ Len(search_results) = Cardinality(TitleLines)

\* a file with two title lines after a library line has been read to its
\* end, and both sessions were run for the service the first line set
C13_Witness ==
    /\ b_pc = "returned"
    /\ Len(search_results) = 2
    /\ LibraryLines = {1}
    /\ search_results[1].libservice = <<"islington">>
    /\ search_results[2].libservice = <<"islington">>

----------------------------------------------------------------------------
(* Properties of run_search (checked under SpecSearch) *)

\* the search page has been fetched and its outcome handled
SearchPageHandled == s_pc \notin {"idle", "fetch_search"}

\* C1: when the fetch of the search URL fails, run_search returns normally,
\* leaves items_found empty and records an error message in the session's
\* error-message list, the list show_search reports.
C1_FetchFailureRecorded ==
    (SearchPageHandled /\ raw_html = None) =>
        /\ s_pc = "returned"
        /\ s_exception = "none"
        /\ search.items_found = << >>
        /\ show_search_errors(search) # << >>

\* C2: for a mapped service, run_search with title and author both empty
\* never raises and issues no fetch; it records an error on the session and
\* leaves items_found empty and search_url unset.
C2_EmptyQueryRecorded ==
    (/\ s_pc # "idle"
     /\ args.libservice \in DOMAIN library_service_backends
     /\ args.title = << >>
     /\ args.author = << >>) =>
        /\ s_pc = "returned"
        /\ s_exception = "none"
        /\ fetches = << >>
        /\ search.items_found = << >>
        /\ search.search_url = << >>
        /\ (search.error_messages # << >> \/ search.error_message # "unset")

\* C3: for a service with no entry in the service->backend map, run_search
\* ends the run with a non-zero exit before any catalogue URL is built and
\* before any fetch is issued, whatever the title and author.
C3_UnmappedServiceExits ==
    (s_pc # "idle" /\ args.libservice \notin DOMAIN library_service_backends) =>
        /\ s_pc = "exited"
        /\ exit_code # 0
        /\ search.catalogue_url = << >>
        /\ search.search_url = << >>
        /\ fetches = << >>

\* a search with a title for an unmapped service has exited
C3_Witness ==
    /\ s_pc = "exited"
    /\ args.libservice \notin DOMAIN library_service_backends
    /\ args.title # << >>
    /\ DOMAIN library_service_backends # {}

\* C4: when the fetch of a record's detail page fails, the failure is not
\* raised, the item is still appended with the not-available placeholder
\* and no branches, and every later record of the page is still processed.
C4_DetailFailureDegrades ==
    (detail_raw = None) =>
        /\ s_pc # "raised"
        /\ s_exception = "none"
        /\ \E k \in 1..Len(gsr_items) :
               /\ gsr_items[k].available_at = "NOT AVAILABLE"
               /\ gsr_items[k].branches = << >>
        /\ s_pc = "returned" =>
               Len(search.items_found) = Len(Flatten(html.searchResults))

\* C8: for a parsed document with no div#searchResults (Prism) or no
\* div#results_wrapper (Sirsidynix), get_search_results returns an empty
\* sequence, does not raise and issues no detail-page fetch.
C8_NoContainerNoResults ==
    (/\ SearchPageHandled
     /\ raw_html # Unassigned
     /\ raw_html # None
     /\ ~raw_html.empty
     /\ \/ backend = "PrismBackend" /\ html.searchResults = << >>
        \/ backend = "LLCSirsidynixBackend" /\ html.results_wrapper = << >>) =>
        /\ s_pc = "returned"
        /\ s_exception = "none"
        /\ search.items_found = << >>
        /\ \A i \in 1..Len(fetches) : fetches[i].kind # "detail"

\* the Prism backend was handed a page without div#searchResults that has
\* records under div#results_wrapper, and the search has returned
C8_Witness ==
    /\ s_pc = "returned"
    /\ backend = "PrismBackend"
    /\ raw_html # Unassigned
    /\ raw_html # None
    /\ ~raw_html.empty
    /\ html.searchResults = << >>
    /\ html.results_wrapper # << >>
    /\ html.results_wrapper[1] # << >>

\* the search page came back with content and has been parsed
PageParsed ==
    /\ SearchPageHandled
    /\ raw_html # Unassigned
    /\ raw_html # None
    /\ ~raw_html.empty

\* the link of a Prism record: its id attribute, or the default of get()
LinkOf(record) == IF record.has_id THEN record.id ELSE <<"NOT FOUND">>

\* C19: a Prism search over a results page with N records issues exactly
\* N + 1 fetches, one at a time: the search page first, then one detail-page
\* fetch per record in record order; the items_found it returns has exactly
\* N items, in record order.
C19_OneFetchPerRecord ==
    (PageParsed /\ backend = "PrismBackend"
        /\ s_pc \notin {"fetch_detail"}) =>
        LET records == PrismRecords(html)
            N == Len(records)
        IN /\ s_pc = "returned"
           /\ Len(fetches) = N + 1
           /\ fetches[1] = [kind |-> "search", url |-> search.search_url]
           /\ \A k \in 1..N :
                  fetches[k + 1] = [kind |-> "detail", url |-> LinkOf(records[k])]
           /\ Len(search.items_found) = N
           /\ \A k \in 1..N : search.items_found[k].link = LinkOf(records[k])

\* the value the nesting span.FIELD > div.FIELD > div.FIELD stands for: the
\* text of its second inner div, or the placeholder
FieldValue(nest) ==
    IF nest.span /\ nest.outer /\ Len(nest.inner) >= 2
    THEN nest.inner[2] ELSE "???"

\* C20: for every Sirsidynix record and FIELD in {PUBDATE, PARENT_AVAILABLE}
\* the extracted value is the text of the second inner div of the nesting
\* when it exists and a placeholder when the nesting is absent or incomplete
\* (no span, no outer div, no inner div, only one inner div); extraction
\* never raises and every record is appended.
C20_PlaceholderNeverRaises ==
    (PageParsed /\ backend = "LLCSirsidynixBackend") =>
        LET records == SirsidynixRecords(html)
        IN /\ s_pc = "returned"
           /\ s_exception = "none"
           /\ Len(search.items_found) = Len(records)
           /\ \A k \in 1..Len(records) :
                  /\ search.items_found[k].publication_date =
                         FieldValue(records[k].PUBDATE)
                  /\ search.items_found[k].available_at =
                         FieldValue(records[k].PARENT_AVAILABLE)

----------------------------------------------------------------------------
(* Properties of the item id (checked under SpecItemId) *)

\* the link of the page's single record, and the items made for it so far
TheRecord == html.searchResults[1][1]
TheLink == IF TheRecord.has_id THEN TheRecord.id ELSE <<"NOT FOUND">>
ItemsMade ==
    (IF s_pc = "fetch_detail" THEN {item} ELSE {})
        \cup {gsr_items[k] : k \in 1..Len(gsr_items)}
        \cup {search.items_found[k] : k \in 1..Len(search.items_found)}

\* the positions of TheLink where items/ is followed by a digit
MatchPositions ==
    {i \in 1..(Len(TheLink) - 1) : TheLink[i] = "items/" /\ IsDigit(TheLink[i + 1])}

----------------------------------------------------------------------------
(* Properties of get_backend and the two tables (checked under SpecCache) *)

\* the backend identifier a service is mapped to
MappedId(libservice) == library_service_backends[libservice]

\* no two of the objects constructed answer to the same identifier
OneInstancePerId ==
    \A i, j \in 1..Len(backend_objs) :
        get_id(backend_objs[i]) = get_id(backend_objs[j]) => i = j

\* the object the current search got from get_backend is the one the cache
\* holds for the identifier its service is mapped to
ReturnedIsCached ==
    backend_instance # 0 =>
        /\ args.libservice \in DOMAIN library_service_backends
        /\ MappedId(args.libservice) \in DOMAIN backends_dict
        /\ backends_dict[MappedId(args.libservice)] =
               [cls |-> backend, instance |-> backend_instance]
        /\ backend_objs[backend_instance] = backend

\* a step keeps every entry of the cache as it is
CacheEntriesKept ==
    \A b \in DOMAIN backends_dict :
        /\ b \in DOMAIN backends_dict'
        /\ backends_dict'[b] = backends_dict[b]

\* a step that starts a search of a service whose identifier has an entry
\* in the cache gives that search the instance of the entry
LaterLookupSameInstance ==
    (/\ s_pc \in {"idle", "returned"}
     /\ searchVars' # searchVars
     /\ args'.libservice \in DOMAIN library_service_backends
     /\ MappedId(args'.libservice) \in DOMAIN backends_dict) =>
        backend_instance' = backends_dict[MappedId(args'.libservice)].instance

\* C21: across the searches of a run at most one backend instance is
\* constructed per backend identifier: an entry of the instance cache is
\* never replaced or removed, a later lookup of a service mapped to the
\* entry's identifier returns the entry's instance, and no step of a search
\* changes the service->backend map.
C21_CacheWriteOnce ==
    /\ [](OneInstancePerId /\ ReturnedIsCached)
    /\ [][/\ CacheEntriesKept
          /\ LaterLookupSameInstance
          /\ library_service_backends' = library_service_backends]_vars

\* both backends have been constructed, and a later search of a second
\* service of the first one's identifier got the first object again
C21_Witness ==
    /\ Len(backend_objs) = 2
    /\ backend_instance = 1
    /\ args.libservice = <<"barnet">>
    /\ s_pc = "returned"
    /\ search.items_found # << >>

----------------------------------------------------------------------------
(* Properties of get_backend on a mapped service (checked under SpecSearch) *)

\* C22: for every service that has an entry in the service->backend map,
\* whatever identifier the entry holds, get_backend returns a backend
\* instance whose get_id() is the mapped identifier: a search of a mapped
\* service always gets such an instance.
C22_MappedServiceGetsBackend ==
    (s_pc # "idle" /\ args.libservice \in DOMAIN library_service_backends) =>
        /\ backend_instance # 0
        /\ backend \in BackendClasses
        /\ get_id(backend) = MappedId(args.libservice)

====
